---- MODULE Spec2Model ----
(***************************************************************************)
(* A model of the site build pipeline of jamesxoliver.github.io:           *)
(*   scripts/convert.py     .tex corpus -> markdown, category tree, nav,   *)
(*                          homepage                                       *)
(*   scripts/inject_seo.py  post-build enrichment of the rendered HTML,    *)
(*                          syndication feed, sitemap lastmod              *)
(*                                                                         *)
(* Text is modelled as sequences of one-character strings, so that slug(), *)
(* str.title(), Path.stem and the substring tests are computed character   *)
(* by character as the code computes them.  Calendar dates (the fixed      *)
(* width YYYY-MM-DD strings the code compares as text) are modelled as     *)
(* positive integers in calendar order; 0 stands for None / "".            *)
(***************************************************************************)
EXTENDS Integers, Sequences, FiniteSets, TLC

\* ------------------------------------------------------------------ bounds

\* The largest number of source documents in a modelled corpus.
MaxDocs == 3
\* Calendar dates are 1..MaxDate.
MaxDate == 3
\* The largest number of essays in the state the homepage is generated from,
\* and their dates, 1..MaxHomeDate.
MaxEssays == 7
MaxHomeDate == 2
\* The dates of rendered pages are 1..MaxPageDate.
MaxPageDate == 2
\* The largest number of rendered pages of a modelled site.
MaxPages == 2
\* How many times the enricher is started on one site.
MaxRuns == 2
\* The largest number of runs of pages a site of numbered pages is made of.
MaxChunks == 3

\* ------------------------------------------------------------- characters

UpperCase == <<"A","B","C","D","E","F","G","H","I","J","K","L","M",
               "N","O","P","Q","R","S","T","U","V","W","X","Y","Z">>
LowerCase == <<"a","b","c","d","e","f","g","h","i","j","k","l","m",
               "n","o","p","q","r","s","t","u","v","w","x","y","z">>
Digits == {"0","1","2","3","4","5","6","7","8","9"}
\* The characters of the modelled texts in code point order.
CodePoints == <<" ", "(", ")", "-", ".", "/", "0","1","2","3","4","5","6","7","8","9">>
              \o UpperCase \o <<"_">> \o LowerCase

Range(s) == {s[i] : i \in DOMAIN s}
IndexOf(s, c) == CHOOSE i \in DOMAIN s : s[i] = c
UpperSet == Range(UpperCase)
LowerSet == Range(LowerCase)
IsUpper(c) == c \in UpperSet
IsLower(c) == c \in LowerSet
\* str.lower() and str.upper() on one character
LowerOf == [c \in UpperSet |-> LowerCase[IndexOf(UpperCase, c)]]
UpperOf == [c \in LowerSet |-> UpperCase[IndexOf(LowerCase, c)]]
ToLower(c) == IF IsUpper(c) THEN LowerOf[c] ELSE c
ToUpper(c) == IF IsLower(c) THEN UpperOf[c] ELSE c
Lower(s) == [i \in DOMAIN s |-> ToLower(s[i])]
\* the class [a-z0-9] of slug()'s regular expression
IsSlugChar(c) == IsLower(c) \/ c \in Digits
\* the position of a character in the code point order
CodePointOf == [c \in Range(CodePoints) |-> IndexOf(CodePoints, c)]

\* s[from..] starts with sub
StartsAt(s, sub, from) ==
    /\ from + Len(sub) - 1 <= Len(s)
    /\ \A k \in 1..Len(sub) : s[from + k - 1] = sub[k]
\* the test `sub in s`
Contains(s, sub) == \E i \in 1..(Len(s) + 1) : StartsAt(s, sub, i)

\* str.replace(old, ""): every non-overlapping occurrence, left to right
RECURSIVE Remove(_, _)
Remove(s, old) ==
    IF s = <<>> THEN <<>>
    ELSE IF StartsAt(s, old, 1)
         THEN Remove(SubSeq(s, Len(old) + 1, Len(s)), old)
         ELSE <<Head(s)>> \o Remove(Tail(s), old)

\* str.replace(old, new) for single characters
ReplaceChar(s, old, new) == [i \in DOMAIN s |-> IF s[i] = old THEN new ELSE s[i]]

\* re.sub(r"[^a-z0-9]+", "-", s): each maximal run of other characters
\* becomes one hyphen
RECURSIVE CollapseRuns(_)
CollapseRuns(s) ==
    IF s = <<>> THEN <<>>
    ELSE IF IsSlugChar(Head(s))
         THEN <<Head(s)>> \o CollapseRuns(Tail(s))
         ELSE IF Len(s) > 1 /\ ~IsSlugChar(s[2])
              THEN CollapseRuns(Tail(s))
              ELSE <<"-">> \o CollapseRuns(Tail(s))

\* str.strip(c)
RECURSIVE LStrip(_, _)
LStrip(s, c) == IF s # <<>> /\ Head(s) = c THEN LStrip(Tail(s), c) ELSE s
RECURSIVE RStrip(_, _)
RStrip(s, c) ==
    IF s # <<>> /\ s[Len(s)] = c THEN RStrip(SubSeq(s, 1, Len(s) - 1), c) ELSE s
Strip(s, c) == RStrip(LStrip(s, c), c)

\* str.title(): a cased character is upper-cased when it follows an uncased
\* character (or starts the text) and lower-cased otherwise
IsCased(c) == IsUpper(c) \/ IsLower(c)
Title(s) ==
    [i \in DOMAIN s |->
        IF ~IsCased(s[i]) THEN s[i]
        ELSE IF i = 1 \/ ~IsCased(s[i - 1]) THEN ToUpper(s[i]) ELSE ToLower(s[i])]

\* text comparison by code point, as Python orders str
RECURSIVE StrLess(_, _)
StrLess(a, b) ==
    IF b = <<>> THEN FALSE
    ELSE IF a = <<>> THEN TRUE
    ELSE IF Head(a) = Head(b) THEN StrLess(Tail(a), Tail(b))
    ELSE CodePointOf[Head(a)] < CodePointOf[Head(b)]

\* ------------------------------------------------------------------- slug

DotTex == <<".","t","e","x">>
DotMd == <<".","m","d">>

\* a variant that leaves the hyphens at the ends
SlugUnstripped(name) == CollapseRuns(Lower(Remove(name, DotTex)))

slug(name) == Strip(CollapseRuns(Lower(Remove(name, DotTex))), "-")

\* ------------------------------------------------- extract_first_paragraph

Space == " "
Ellipsis == <<".", ".", ".">>
\* line 105: a description is longer than this
DescMin == 30
\* line 107: a description longer than this is cut
DescLimit == 155
\* line 108: the number of characters kept before the last word is dropped
DescCut == 152

\* the first index from `from` on where s holds c, 0 when there is none
NextIndex(s, c, from) ==
    LET hits == { i \in from..Len(s) : s[i] = c } IN
    IF hits = {} THEN 0 ELSE CHOOSE i \in hits : \A j \in hits : i <= j

\* line 100: re.sub(r"\$[^$]+\$", "", line), inline math removed left to
\* right: a "$", one or more other characters, the next "$"
RECURSIVE RemoveMath(_)
RemoveMath(s) ==
    LET open == NextIndex(s, "$", 1)
        close == NextIndex(s, "$", open + 1)
    IN  IF open = 0 \/ close = 0 THEN s
        ELSE IF close = open + 1
             THEN SubSeq(s, 1, open) \o RemoveMath(SubSeq(s, close, Len(s)))
             ELSE SubSeq(s, 1, open - 1) \o RemoveMath(SubSeq(s, close + 1, Len(s)))

\* lines 100-104: the line as plain text.  The lines modelled hold no "*" and
\* no "[", so the substitutions for bold, italic and links find nothing.
CleanLine(line) == Strip(RemoveMath(line), Space)

JamesOliver == <<"j","a","m","e","s"," ","o","l","i","v","e","r">>
Author == <<"a","u","t","h","o","r">>
\* lines 91-98: headings, empty lines, metadata, images, lists, markup
SkippedLine(line) ==
    \/ line = <<>>
    \/ Head(line) \in {"#", "!", "-"}
    \/ /\ StartsAt(line, <<"*", "*">>, 1)
       /\ (Contains(Lower(line), JamesOliver) \/ Contains(Lower(line), Author))
    \/ Head(line) = "*" /\ line[Len(line)] = "*"
    \/ Head(line) = "<"
    \/ StartsAt(line, <<":", ":", ":">>, 1)
    \/ StartsAt(line, <<"-", "-", "-">>, 1)

\* desc[:152].rsplit(" ", 1)[0]
RSplitHead(s) ==
    IF \E i \in DOMAIN s : s[i] = Space
    THEN SubSeq(s, 1, (CHOOSE i \in DOMAIN s :
                          s[i] = Space /\ \A k \in (i + 1)..Len(s) : s[k] # Space) - 1)
    ELSE s

\* lines 105-109
Truncated(desc) ==
    IF Len(desc) > DescLimit
    THEN RSplitHead(SubSeq(desc, 1, DescCut)) \o Ellipsis
    ELSE desc

\* lines 86-110, on the lines of md_content
RECURSIVE extract_first_paragraph(_)
extract_first_paragraph(lines) ==
    IF lines = <<>> THEN <<>>
    ELSE LET line == Strip(Head(lines), Space) IN
         IF SkippedLine(line) THEN extract_first_paragraph(Tail(lines))
         ELSE IF Len(CleanLine(line)) > DescMin THEN Truncated(CleanLine(line))
         ELSE extract_first_paragraph(Tail(lines))

\* ------------------------------------------------- estimate_reading_time

\* line 123: words per minute
WordsPerMinute == 200

\* round(n / d) as Python rounds a float: to the nearest integer, a half to
\* the even neighbour
RoundHalfEven(n, d) ==
    LET q == n \div d
        r == n % d
    IN  IF 2 * r < d THEN q
        ELSE IF 2 * r > d THEN q + 1
        ELSE IF q % 2 = 0 THEN q ELSE q + 1

\* a variant without the minimum of one minute
EstimateUnfloored(words) == RoundHalfEven(words, WordsPerMinute)

\* lines 122-124, from the count of words on
estimate_reading_time(words) ==
    LET minutes == RoundHalfEven(words, WordsPerMinute)
    IN  IF minutes > 1 THEN minutes ELSE 1

\* ------------------------------------------------------------------ paths

Slash == <<"/">>
\* "a/b/c" from <<a, b, c>>, the text of a relative path
RECURSIVE JoinParts(_)
JoinParts(parts) ==
    IF Len(parts) = 1 THEN parts[1]
    ELSE parts[1] \o Slash \o JoinParts(Tail(parts))
\* pathlib's `/`: an empty component adds nothing
PathJoin(p, c) == IF c = <<>> THEN p ELSE p \o Slash \o c

\* the index of the last occurrence of c in s, 0 when there is none (rfind)
LastIndex(s, c) ==
    IF c \in Range(s) THEN CHOOSE i \in DOMAIN s : s[i] = c /\ \A k \in (i+1)..Len(s) : s[k] # c
    ELSE 0
\* PurePath.name: the text after the last separator
BaseName(path) == SubSeq(path, LastIndex(path, "/") + 1, Len(path))
\* PurePath.stem: the name without its last suffix; a leading or trailing
\* dot starts no suffix
Stem(path) ==
    LET name == BaseName(path)
        i == LastIndex(name, ".")
    IN  IF 1 < i /\ i < Len(name) THEN SubSeq(name, 1, i - 1) ELSE name

\* ------------------------------------------------- convert.py: the inputs

\* Source documents the modelled corpora are drawn from, as rel.parts, in
\* the order sorted() gives the paths (component by component, by code
\* point).
Pool == <<
    << <<"0","_","F","o","r","m","a","t">>, <<"a",".","t","e","x">> >>,
    << <<"X">>, <<"Y">>, <<"W">>, <<"B",".","t","e","x">> >>,
    << <<"X">>, <<"Y">>, <<"b",".","t","e","x">> >>,
    << <<"X">>, <<"a",".","t","e","x">> >>,
    << <<"X">>, <<"t","e","m","p","l","a","t","e",".","t","e","x">> >>,
    << <<"Z">>, <<"a",".","t","e","x">> >> >>

\* the k-th smallest element of a set of integers
RECURSIVE Nth(_, _)
Nth(S, k) ==
    LET m == CHOOSE x \in S : \A y \in S : x <= y
    IN  IF k = 1 THEN m ELSE Nth(S \ {m}, k - 1)
\* The corpora: the sub-sequences of Pool of at most MaxDocs documents.
Corpora ==
    { [k \in 1..Cardinality(I) |-> Pool[Nth(I, k)]] :
        I \in {J \in SUBSET (1..Len(Pool)) : Cardinality(J) <= MaxDocs} }

\* What extract_title returns: None (modelled as the empty text, which the
\* pattern (.+?) never yields), the placeholder, or a title.
NoTitle == <<>>
PlaceholderTitle == <<"T","i","t","l","e">>
Alpha == <<"A","l","p","h","a">>
Beta == <<"B","e","t","a">>
TitleInputs == {NoTitle, PlaceholderTitle, Alpha, Beta}
\* What get_git_dates returns as the published date: None (0) or a date.
DateInputs == 0..MaxDate

SKIP_DIRS == { <<"0","_","F","o","r","m","a","t">> }
TemplateMarker == <<"t","e","m","p","l","a","t","e">>
\* RENAME.get(name, name)
Rename(name) ==
    IF name = <<"1","_","F","o","u","n","d","a","t","i","o","n","s">>
    THEN <<"F","o","u","n","d","a","t","i","o","n","s">>
    ELSE name

Essays == <<"e","s","s","a","y","s">>
\* DOCS_DIR, Path("docs/essays")
DOCS_DIR == <<"d","o","c","s">> \o Slash \o Essays
\* A file left in DOCS_DIR by an earlier run.
StaleFile == PathJoin(DOCS_DIR, <<"o","l","d",".","m","d">>)
\* the empty dict
EmptyDict == <<>>
\* d[k] = v
Put(d, k, v) == [x \in (DOMAIN d) \cup {k} |-> IF x = k THEN v ELSE d[x]]
\* the content of DOCS_DIR before the run
InitialDocs(stale) ==
    IF stale THEN Put(EmptyDict, StaleFile, [src |-> <<>>, title |-> <<>>, published |-> 0, see_also |-> <<>>])
    ELSE EmptyDict
\* a file that does not exist, and a file with its content
Absent == [exists |-> FALSE]
File(content) == [exists |-> TRUE, content |-> content]

VARIABLES
    \* ---- environment of convert.main
    papersExist,   \* PAPERS_DIR is a directory
    staleOutput,   \* DOCS_DIR held output of an earlier run when main started
    corpus,        \* sorted(PAPERS_DIR.rglob("*.tex")), as rel.parts
    tex_related,   \* the slugs each document names in \RelatedEssays{...}
    texts,         \* extract_title's result for each document read so far
    pandoc,        \* tex_to_md's outcome for each essay converted so far
    \* ---- the output corpus
    docsFiles,     \* the files under DOCS_DIR: path -> content written
    navFile,       \* docs/_nav.yml
    homeFile,      \* docs/index.md
    \* ---- locals of convert.main
    pc,            \* the position in main
    idx,           \* the index of the loop the run is in
    essays,        \* the metadata collected by pass 1
    slug_to_info,  \* file slug -> (title, path)
    essay_tree,    \* top category -> sub category or None -> [(title, path)]
    converted,
    failed

buildVars == <<papersExist, staleOutput, corpus, tex_related, texts, pandoc, docsFiles, navFile,
               homeFile, pc, idx, essays, slug_to_info, essay_tree, converted, failed>>

VARIABLES
    \* ---- the built site, SITE_DIR
    pages,         \* the rendered HTML files, in the order rglob("*.html") yields them
    feedFile,      \* site/feed.xml: the items of the feed
    sitemap,       \* site/sitemap.xml: the url elements, loc -> lastmod
    \* ---- inject_seo.main
    epc,           \* the position in main
    eidx,          \* the index of the loop over the HTML files
    run            \* how many times the enricher has been started on this site

siteVars == <<pages, feedFile, sitemap, epc, eidx, run>>

VARIABLES
    \* ---- a function of convert.py called on its own
    arg,           \* the arguments of the successive calls
    out            \* the results of the calls made so far

fnVars == <<arg, out>>

vars == <<buildVars, siteVars, fnVars>>

\* sub_category is None for a document directly under its top category
NoSub == <<>>

\* lines 360-387: the metadata of one titled document
MakeInfo(parts, title, published, related_slugs) ==
    LET name == parts[Len(parts)]
        top_category == Rename(parts[1])
        sub_category == IF Len(parts) > 2 THEN parts[2] ELSE NoSub
        file_slug == slug(name)
        top_slug == slug(top_category)
        nav_path ==
            IF sub_category # NoSub
            THEN Essays \o Slash \o top_slug \o Slash \o slug(sub_category)
                 \o Slash \o file_slug \o DotMd
            ELSE Essays \o Slash \o top_slug \o Slash \o file_slug \o DotMd
    IN  [rel |-> parts, title |-> title, published |-> published,
         related_slugs |-> related_slugs,
         top_category |-> top_category, sub_category |-> sub_category,
         file_slug |-> file_slug, nav_path |-> nav_path]

\* lines 345-348: the skip filters
Skipped(parts) ==
    \/ parts[1] \in SKIP_DIRS
    \/ Contains(Lower(parts[Len(parts)]), TemplateMarker)

\* lines 352-354
ValidTitle(title) == title # NoTitle /\ title # PlaceholderTitle

\* The state convert.main starts in, for the corpora a specification draws
\* from: rglob() of a directory that does not exist yields nothing.
BuildInit(corpora) ==
    /\ papersExist \in BOOLEAN
    /\ staleOutput \in BOOLEAN
    /\ corpus \in (IF papersExist THEN corpora ELSE {<<>>})
    /\ tex_related = [i \in DOMAIN corpus |-> <<>>]
    /\ texts = <<>>
    /\ pandoc = <<>>
    /\ docsFiles = InitialDocs(staleOutput)
    /\ navFile = Absent
    /\ homeFile = Absent
    /\ pc = "clean"
    /\ idx = 0
    /\ essays = <<>>
    /\ slug_to_info = EmptyDict
    /\ essay_tree = EmptyDict
    /\ converted = 0
    /\ failed = 0

\* lines 328-339: shutil.rmtree(DOCS_DIR) and DOCS_DIR.mkdir
CleanOutput ==
    /\ pc = "clean"
    /\ docsFiles' = EmptyDict
    /\ pc' = "pass1"
    /\ idx' = 1
    /\ UNCHANGED <<siteVars, fnVars, papersExist, staleOutput, corpus, tex_related, texts, pandoc, navFile, homeFile,
                   essays, slug_to_info, essay_tree, converted, failed>>

\* lines 341-387, one iteration of the loop of pass 1
Pass1Step ==
    /\ pc = "pass1"
    /\ idx <= Len(corpus)
    /\ LET parts == corpus[idx] IN
        IF Skipped(parts)
        THEN UNCHANGED <<texts, essays, slug_to_info>>
        ELSE \E title \in TitleInputs :
               /\ texts' = Append(texts, title)
               /\ IF ~ValidTitle(title)
                  THEN UNCHANGED <<essays, slug_to_info>>
                  ELSE \E published \in DateInputs :
                         LET info == MakeInfo(parts, title, published, tex_related[idx]) IN
                         /\ essays' = Append(essays, info)
                         /\ slug_to_info' =
                              Put(slug_to_info, info.file_slug,
                                  [title |-> title, path |-> info.nav_path])
    /\ idx' = idx + 1
    /\ UNCHANGED <<siteVars, fnVars, papersExist, staleOutput, corpus, tex_related, pandoc, docsFiles, navFile,
                   homeFile, pc, essay_tree, converted, failed>>

\* lines 389-393: the loop of pass 1 has ended
Pass1Done ==
    /\ pc = "pass1"
    /\ idx > Len(corpus)
    /\ pc' = "pass2"
    /\ idx' = 1
    /\ essay_tree' = EmptyDict
    /\ converted' = 0
    /\ failed' = 0
    /\ UNCHANGED <<siteVars, fnVars, papersExist, staleOutput, corpus, tex_related, texts, pandoc, docsFiles, navFile,
                   homeFile, essays, slug_to_info>>

\* lines 416-423: the file an essay is written to
OutPath(info) ==
    LET top_dir == PathJoin(DOCS_DIR, slug(info.top_category))
        out_dir == IF info.sub_category # NoSub
                   THEN PathJoin(top_dir, slug(info.sub_category))
                   ELSE top_dir
    IN  PathJoin(out_dir, info.file_slug \o DotMd)

\* lines 429-433: essay_tree[top][sub].append((title, nav_path))
TreeAppend(tree, top, sub, item) ==
    LET subs == IF top \in DOMAIN tree THEN tree[top] ELSE EmptyDict
        items == IF sub \in DOMAIN subs THEN subs[sub] ELSE <<>>
    IN  Put(tree, top, Put(subs, sub, Append(items, item)))

\* a variant that knows only the documents read up to the one it renders, as
\* a single pass over the corpus would
LinkTableSoFar(table, info) ==
    LET upto == CHOOSE i \in DOMAIN essays : essays[i].rel = info.rel
        known == { essays[i].file_slug : i \in 1..upto }
    IN  [k \in DOMAIN table \cap known |-> table[k]]

\* line 413: the table clean_md is given for a document
LinkTable(table, info) == table

\* lines 227-236 of clean_md: the links of the "See also" section
see_also(related_slugs, table) ==
    LET found == SelectSeq(related_slugs, LAMBDA rs : rs \in DOMAIN table)
    IN  [k \in DOMAIN found |-> [title |-> table[found[k]].title,
                                  path |-> table[found[k]].path]]

\* lines 395-435, one iteration of the loop of pass 2
Pass2Step ==
    /\ pc = "pass2"
    /\ idx <= Len(essays)
    /\ LET info == essays[idx] IN
       \E ok \in BOOLEAN :
         /\ pandoc' = Append(pandoc, ok)
         /\ IF ~ok
            THEN /\ failed' = failed + 1
                 /\ UNCHANGED <<docsFiles, essay_tree, converted>>
            ELSE /\ docsFiles' =
                       Put(docsFiles, OutPath(info),
                           [src |-> info.rel, title |-> info.title,
                            published |-> info.published,
                            see_also |-> see_also(info.related_slugs,
                                                  LinkTable(slug_to_info, info))])
                 /\ essay_tree' =
                       TreeAppend(essay_tree, info.top_category, info.sub_category,
                                  <<info.title, info.nav_path>>)
                 /\ converted' = converted + 1
                 /\ UNCHANGED failed
    /\ idx' = idx + 1
    /\ UNCHANGED <<siteVars, fnVars, papersExist, staleOutput, corpus, tex_related, texts, navFile, homeFile, pc,
                   essays, slug_to_info>>

\* the positions of the entries of a tree: <<top, sub, index>>
TreeEntries(tree) ==
    UNION { UNION { { <<t, s, i>> : i \in DOMAIN tree[t][s] } : s \in DOMAIN tree[t] }
            : t \in DOMAIN tree }
EntryAt(tree, e) == tree[e[1]][e[2]][e[3]]

\* a variant that counts the occurrences of a title within one bucket only
DupesWithinBucket(tree) ==
    { t \in { EntryAt(tree, e)[1] : e \in TreeEntries(tree) } :
        \E e \in TreeEntries(tree) :
            /\ EntryAt(tree, e)[1] = t
            /\ \E i \in DOMAIN tree[e[1]][e[2]] :
                  i # e[3] /\ tree[e[1]][e[2]][i][1] = t }

\* lines 441-449: the titles that occur more than once in the whole tree
Dupes(tree) ==
    { t \in { EntryAt(tree, e)[1] : e \in TreeEntries(tree) } :
        Cardinality({ e \in TreeEntries(tree) : EntryAt(tree, e)[1] = t }) > 1 }

\* lines 459-462: the display title of an entry with a duplicated title
NewTitle(title, path) ==
    LET fname == Stem(path)
        readable == Title(ReplaceChar(fname, "-", " "))
    IN  title \o <<" ", "(">> \o readable \o <<")">>

\* lines 451-466
Disambiguated(tree) ==
    LET dupes == Dupes(tree) IN
    [t \in DOMAIN tree |->
        [s \in DOMAIN tree[t] |->
            [i \in DOMAIN tree[t][s] |->
                LET item == tree[t][s][i] IN
                IF item[1] \in dupes
                THEN <<NewTitle(item[1], item[2]), item[2]>>
                ELSE item]]]

\* ---- sorted()

\* the order of (title, path) tuples
ItemLess(a, b) == StrLess(a[1], b[1]) \/ (a[1] = b[1] /\ StrLess(a[2], b[2]))
RECURSIVE SortItems(_)
SortItems(items) ==
    IF items = <<>> THEN <<>>
    ELSE LET rest == SortItems(Tail(items))
             n == Cardinality({ k \in DOMAIN rest : ItemLess(rest[k], Head(items)) })
         IN  SubSeq(rest, 1, n) \o <<Head(items)>> \o SubSeq(rest, n + 1, Len(rest))
\* sorted() of a set of texts
RECURSIVE SortKeys(_)
SortKeys(S) ==
    IF S = {} THEN <<>>
    ELSE LET m == CHOOSE x \in S : \A y \in S \ {x} : StrLess(x, y)
         IN  <<m>> \o SortKeys(S \ {m})

\* lines 250-271
build_nav(tree) ==
    LET tops == SortKeys(DOMAIN tree) IN
    [k \in DOMAIN tops |->
        LET subs == tree[tops[k]]
            direct == IF NoSub \in DOMAIN subs THEN SortItems(subs[NoSub]) ELSE <<>>
            subcats == SortKeys((DOMAIN subs) \ {NoSub})
        IN  [category |-> tops[k],
             items |-> direct,
             subcategories |->
                [j \in DOMAIN subcats |->
                    [subcategory |-> subcats[j], items |-> SortItems(subs[subcats[j]])]]]]

\* ---- list.sort(key=..., reverse=True), a stable sort by descending key

\* the indices of keys whose key is v, in order
IndicesWithKey(keys, v) ==
    SelectSeq([i \in DOMAIN keys |-> i], LAMBDA i : keys[i] = v)
\* the indices of keys, latest key first, from the key top down to 0; the
\* indices of one key keep their order
RECURSIVE OrderDesc(_, _)
OrderDesc(keys, top) ==
    IF top < 0 THEN <<>>
    ELSE IndicesWithKey(keys, top) \o OrderDesc(keys, top - 1)
MaxKey(keys) ==
    IF keys = <<>> THEN 0
    ELSE CHOOSE m \in Range(keys) : \A k \in Range(keys) : k <= m
SortDesc(s, keys) ==
    LET perm == OrderDesc(keys, MaxKey(keys)) IN [i \in DOMAIN s |-> s[perm[i]]]

\* s[:n]
Take(s, n) == SubSeq(s, 1, IF Len(s) < n THEN Len(s) ELSE n)

\* line 288: recent = dated[:5]
RecentCap == 5

\* a variant that ranks the undated essays last instead of leaving them out
RecentWithUndated(es) ==
    Take(SortDesc(es, [i \in DOMAIN es |-> es[i].published]), RecentCap)

\* lines 285-288
Recent(es) ==
    LET dated == SelectSeq(es, LAMBDA e : e.published # 0)
        sorted == SortDesc(dated, [i \in DOMAIN dated |-> dated[i].published])
    IN  Take(sorted, RecentCap)

\* lines 274-323: the recent section and the category sections of docs/index.md
generate_homepage(tree, es) ==
    LET recent == Recent(es) IN
    [recent |-> [i \in DOMAIN recent |->
                    [title |-> recent[i].title,
                     nav_path |-> recent[i].nav_path,
                     published |-> recent[i].published]],
     categories |-> build_nav(tree)]

\* lines 437-476: after the loop of pass 2, the summary, the disambiguation
\* of duplicate titles, the navigation fragment and the homepage
Finish ==
    /\ pc = "pass2"
    /\ idx > Len(essays)
    /\ essay_tree' = Disambiguated(essay_tree)
    /\ navFile' = File(build_nav(essay_tree'))
    /\ homeFile' = File(generate_homepage(essay_tree', essays))
    /\ pc' = "done"
    /\ UNCHANGED <<siteVars, fnVars, papersExist, staleOutput, corpus, tex_related, texts, pandoc, docsFiles, idx,
                   essays, slug_to_info, converted, failed>>

\* ------------------------------------------------------- inject_seo.py

SITE_URL == <<"h","t","t","p","s",":","/","/","j","a","m","e","s","x","o","l","i","v","e","r",
              ".","g","i","t","h","u","b",".","i","o">>
SITE_DIR == <<"s","i","t","e">>
IndexHtml == <<"i","n","d","e","x",".","h","t","m","l">>
EssaysSection == Slash \o Essays \o Slash

\* rel.name and str(rel.parent) of a path relative to SITE_DIR
RelName(rel) == rel[Len(rel)]
RelParent(rel) == SubSeq(rel, 1, Len(rel) - 1)

\* a variant without the case of the root index page, whose parent is "."
CanonicalUrlNoRoot(rel) ==
    IF RelName(rel) = IndexHtml
    THEN SITE_URL \o Slash
         \o (IF Len(rel) > 1 THEN JoinParts(RelParent(rel)) ELSE <<".">>) \o Slash
    ELSE SITE_URL \o Slash \o JoinParts(rel)

\* lines 72-79: the canonical URL of a page
CanonicalUrl(rel) ==
    IF RelName(rel) = IndexHtml /\ Len(rel) > 1
    THEN SITE_URL \o Slash \o JoinParts(RelParent(rel)) \o Slash
    ELSE IF RelName(rel) = IndexHtml
         THEN SITE_URL \o Slash
         ELSE SITE_URL \o Slash \o JoinParts(rel)

\* lines 147-151: the URL of a feed entry
FeedUrl(rel) ==
    IF RelName(rel) = IndexHtml /\ Len(rel) > 1
    THEN SITE_URL \o Slash \o JoinParts(RelParent(rel)) \o Slash
    ELSE SITE_URL \o Slash \o JoinParts(rel)

\* lines 212-218: the URL a page's date is recorded under
SitemapUrl(rel) ==
    IF RelName(rel) = IndexHtml /\ Len(rel) > 1
    THEN SITE_URL \o Slash \o JoinParts(RelParent(rel)) \o Slash
    ELSE IF RelName(rel) = IndexHtml
         THEN SITE_URL \o Slash
         ELSE SITE_URL \o Slash \o JoinParts(rel)

\* lines 123, 140: "/essays/" in str(html_path)
InEssays(rel) == Contains(SITE_DIR \o Slash \o JoinParts(rel), EssaysSection)

(***************************************************************************)
(* A rendered page is a record                                             *)
(*   rel        its path relative to SITE_DIR, as parts                    *)
(*   headClose  the text holds the closing head marker                     *)
(*   pre        the tags the rendered text already holds, by marker        *)
(*   head       the tags injected before the closing head marker           *)
(*   title      the part of <title> before " - ", "" when there is none    *)
(*   pub, upd   the dates after "Published:" and "Updated:", 0 when the    *)
(*              text holds none                                            *)
(***************************************************************************)

\* the texts inject_into_html looks for, one per tag it injects
MVerification == "google-site-verification"
MCanonical == "<link rel=\"canonical\""
MRss == "application/rss+xml"
MOgType == "og:type"
MOgSiteName == "og:site_name"
MPublished == "article:published_time"
MModified == "article:modified_time"
MAuthor == "article:author"
MTwitter == "twitter:card"
MJsonLd == "application/ld+json"

\* the tags inject_into_html injects, named by the text it looks for
Markers == {MVerification, MCanonical, MRss, MOgType, MOgSiteName, MPublished,
            MModified, MAuthor, MTwitter, MJsonLd}

\* the text each test of inject_into_html looks for, character by character
GuardText ==
       MVerification :> <<"g","o","o","g","l","e","-","s","i","t","e","-","v","e","r","i","f","i","c","a","t",
          "i","o","n">>
    @@ MCanonical :> <<"<","l","i","n","k"," ","r","e","l","=","\"","c","a","n","o","n","i","c","a","l",
          "\"">>
    @@ MRss :> <<"a","p","p","l","i","c","a","t","i","o","n","/","r","s","s","+","x","m","l">>
    @@ MOgType :> <<"o","g",":","t","y","p","e">>
    @@ MOgSiteName :> <<"o","g",":","s","i","t","e","_","n","a","m","e">>
    @@ MPublished :> <<"a","r","t","i","c","l","e",":","p","u","b","l","i","s","h","e","d","_","t","i","m",
          "e">>
    @@ MModified :> <<"a","r","t","i","c","l","e",":","m","o","d","i","f","i","e","d","_","t","i","m","e">>
    @@ MAuthor :> <<"a","r","t","i","c","l","e",":","a","u","t","h","o","r">>
    @@ MTwitter :> <<"t","w","i","t","t","e","r",":","c","a","r","d">>
    @@ MJsonLd :> <<"a","p","p","l","i","c","a","t","i","o","n","/","l","d","+","j","s","o","n">>

\* the text of each injected tag up to the value it carries
TagText ==
       MVerification :> <<"<","m","e","t","a"," ","n","a","m","e","=","\"","g","o","o","g","l","e","-","s",
          "i","t","e","-","v","e","r","i","f","i","c","a","t","i","o","n","\""," ","c","o",
          "n","t","e","n","t","=","\"">>
    @@ MCanonical :> <<"<","l","i","n","k"," ","r","e","l","=","\"","c","a","n","o","n","i","c","a","l",
          "\""," ","h","r","e","f","=","\"">>
    @@ MRss :> <<"<","l","i","n","k"," ","r","e","l","=","\"","a","l","t","e","r","n","a","t","e",
          "\""," ","t","y","p","e","=","\"","a","p","p","l","i","c","a","t","i","o","n","/",
          "r","s","s","+","x","m","l","\""," ","t","i","t","l","e","=","\"","J","a","m","e",
          "s"," ","O","l","i","v","e","r","\""," ","h","r","e","f","=","\"">>
    @@ MOgType :> <<"<","m","e","t","a"," ","p","r","o","p","e","r","t","y","=","\"","o","g",":","t",
          "y","p","e","\""," ","c","o","n","t","e","n","t","=","\"","a","r","t","i","c","l",
          "e","\""," ","/",">">>
    @@ MOgSiteName :> <<"<","m","e","t","a"," ","p","r","o","p","e","r","t","y","=","\"","o","g",":","s",
          "i","t","e","_","n","a","m","e","\""," ","c","o","n","t","e","n","t","=","\"","J",
          "a","m","e","s"," ","O","l","i","v","e","r","\""," ","/",">">>
    @@ MPublished :> <<"<","m","e","t","a"," ","p","r","o","p","e","r","t","y","=","\"","a","r","t","i",
          "c","l","e",":","p","u","b","l","i","s","h","e","d","_","t","i","m","e","\""," ",
          "c","o","n","t","e","n","t","=","\"">>
    @@ MModified :> <<"<","m","e","t","a"," ","p","r","o","p","e","r","t","y","=","\"","a","r","t","i",
          "c","l","e",":","m","o","d","i","f","i","e","d","_","t","i","m","e","\""," ","c",
          "o","n","t","e","n","t","=","\"">>
    @@ MAuthor :> <<"<","m","e","t","a"," ","p","r","o","p","e","r","t","y","=","\"","a","r","t","i",
          "c","l","e",":","a","u","t","h","o","r","\""," ","c","o","n","t","e","n","t","=",
          "\"","J","a","m","e","s"," ","O","l","i","v","e","r","\""," ","/",">">>
    @@ MTwitter :> <<"<","m","e","t","a"," ","n","a","m","e","=","\"","t","w","i","t","t","e","r",":",
          "c","a","r","d","\""," ","c","o","n","t","e","n","t","=","\"","s","u","m","m","a",
          "r","y","\""," ","/",">">>
    @@ MJsonLd :> <<"<","s","c","r","i","p","t"," ","t","y","p","e","=","\"","a","p","p","l","i","c",
          "a","t","i","o","n","/","l","d","+","j","s","o","n","\"",">">>

\* the tags whose text holds the text a test looks for
Matches == [g \in Markers |-> { t \in Markers : Contains(TagText[t], GuardText[g]) }]

\* the test `marker in html`: a tag of the page holds the text
Has(page, marker) ==
    \/ \E t \in page.pre : t \in Matches[marker]
    \/ \E i \in DOMAIN page.head : page.head[i].marker \in Matches[marker]

\* lines 21-35
extract_meta(page) ==
    [title |-> page.title,
     date |-> page.pub,
     updated |-> IF page.upd # 0 THEN page.upd ELSE page.pub]

\* lines 38-65
build_jsonld(meta, url) ==
    [headline |-> meta.title, id |-> url,
     datePublished |-> meta.date, dateModified |-> meta.updated]

Tag(marker, value) == [marker |-> marker, value |-> value]
When(cond, tag) == IF cond THEN <<tag>> ELSE <<>>

\* a variant without the test for structured data
NeverSkipped(page) == FALSE

\* lines 81-83: the page already holds structured data
AlreadyInjected(page) == Has(page, MJsonLd)

\* lines 85-125: the injection block of a page
Injections(page) ==
    LET meta == extract_meta(page)
        canonical == CanonicalUrl(page.rel)
    IN  When(~Has(page, MVerification), Tag(MVerification, <<>>))
        \o When(~Has(page, MCanonical), Tag(MCanonical, canonical))
        \o When(~Has(page, MRss), Tag(MRss, <<>>))
        \o When(~Has(page, MOgType), Tag(MOgType, <<>>))
        \o When(~Has(page, MOgSiteName), Tag(MOgSiteName, <<>>))
        \o When(meta.date # 0 /\ ~Has(page, MPublished), Tag(MPublished, meta.date))
        \o When(meta.updated # 0 /\ ~Has(page, MModified), Tag(MModified, meta.updated))
        \o When(~Has(page, MAuthor), Tag(MAuthor, <<>>))
        \o When(~Has(page, MTwitter), Tag(MTwitter, <<>>))
        \o When(InEssays(page.rel), Tag(MJsonLd, build_jsonld(meta, canonical)))

\* lines 68-132: the page as inject_into_html leaves it
inject_into_html(page) ==
    IF AlreadyInjected(page) THEN page
    ELSE IF Injections(page) = <<>> THEN page
    ELSE IF page.headClose
         THEN [page EXCEPT !.head = @ \o Injections(page)]
         ELSE page

\* line 167: the cap on the items of the feed
FeedCap == 50

\* a variant without the cap
FeedItemsUncapped(sorted) == sorted

\* line 167: essays[:50]
FeedItems(sorted) == Take(sorted, FeedCap)

\* lines 137-159: the entries of the feed, in the order of the sorted paths
FeedEntries(ps) ==
    LET eligible == SelectSeq(ps, LAMBDA p :
                        /\ InEssays(p.rel)
                        /\ extract_meta(p).title # <<>>
                        /\ extract_meta(p).date # 0)
    IN  [i \in DOMAIN eligible |->
            [title |-> extract_meta(eligible[i]).title,
             url |-> FeedUrl(eligible[i].rel),
             date |-> extract_meta(eligible[i]).date,
             updated |-> extract_meta(eligible[i]).updated]]

\* lines 135-194: the items of feed.xml
generate_rss_feed(ps) ==
    LET entries == FeedEntries(ps)
        sorted == SortDesc(entries, [i \in DOMAIN entries |-> entries[i].date])
        items == FeedItems(sorted)
    IN  [i \in DOMAIN items |->
            [title |-> items[i].title, link |-> items[i].url,
             guid |-> items[i].url, pubDate |-> items[i].date]]

\* lines 204-219: url -> date, over the pages that yield a date
UrlDates(ps) ==
    LET dated == { i \in DOMAIN ps :
                     (IF extract_meta(ps[i]).updated # 0
                      THEN extract_meta(ps[i]).updated
                      ELSE extract_meta(ps[i]).date) # 0 }
        last(u) == CHOOSE i \in dated :
                     /\ SitemapUrl(ps[i].rel) = u
                     /\ \A k \in dated : SitemapUrl(ps[k].rel) = u => k <= i
    IN  [u \in { SitemapUrl(ps[i].rel) : i \in dated } |->
            IF extract_meta(ps[last(u)]).updated # 0
            THEN extract_meta(ps[last(u)]).updated
            ELSE extract_meta(ps[last(u)]).date]

\* an url element without a loc element
NoLoc == <<>>

\* a variant that creates the lastmod element before it looks the loc up,
\* which leaves an empty lastmod on the elements it has no date for
UpdatedUrlEager(u, url_dates) ==
    IF u.loc = NoLoc THEN u
    ELSE IF u.loc \in DOMAIN url_dates
         THEN [u EXCEPT !.lastmod = url_dates[u.loc]]
         ELSE [u EXCEPT !.lastmod = 0]

\* lines 231-241: one url element of the sitemap
UpdatedUrl(u, url_dates) ==
    IF u.loc # NoLoc /\ u.loc \in DOMAIN url_dates
    THEN [u EXCEPT !.lastmod = url_dates[u.loc]]
    ELSE u

\* lines 197-244: sitemap.xml as inject_sitemap_lastmod leaves it
inject_sitemap_lastmod(ps, sm) ==
    IF ~sm.exists THEN sm
    ELSE LET url_dates == UrlDates(ps)
             urls == sm.content
         IN  IF DOMAIN url_dates = {} THEN sm
             ELSE File([k \in DOMAIN urls |-> UpdatedUrl(urls[k], url_dates)])

\* lines 249-251, one iteration of the loop over the HTML files
InjectPage ==
    /\ epc = "inject"
    /\ eidx <= Len(pages)
    /\ pages' = [pages EXCEPT ![eidx] = inject_into_html(@)]
    /\ eidx' = eidx + 1
    /\ UNCHANGED <<buildVars, fnVars, feedFile, sitemap, epc, run>>

\* line 252: the loop has ended
InjectDone ==
    /\ epc = "inject"
    /\ eidx > Len(pages)
    /\ epc' = "feed"
    /\ UNCHANGED <<buildVars, fnVars, pages, feedFile, sitemap, eidx, run>>

\* line 254
GenerateFeed ==
    /\ epc = "feed"
    /\ feedFile' = File(generate_rss_feed(pages))
    /\ epc' = "sitemap"
    /\ UNCHANGED <<buildVars, fnVars, pages, sitemap, eidx, run>>

\* line 255
InjectSitemap ==
    /\ epc = "sitemap"
    /\ sitemap' = inject_sitemap_lastmod(pages, sitemap)
    /\ epc' = "end"
    /\ UNCHANGED <<buildVars, fnVars, pages, feedFile, eidx, run>>

\* inject_seo.py is started again on the site it has processed
Rerun ==
    /\ epc = "end"
    /\ run < MaxRuns
    /\ run' = run + 1
    /\ epc' = "inject"
    /\ eidx' = 1
    /\ UNCHANGED <<buildVars, fnVars, pages, feedFile, sitemap>>

\* ------------------------------------------------------- specifications

\* the enricher has not been started
SiteIdle ==
    /\ pages = <<>>
    /\ feedFile = Absent
    /\ sitemap = Absent
    /\ epc = "idle"
    /\ eidx = 0
    /\ run = 0

\* no function is called on its own
FnIdle ==
    /\ arg = <<>>
    /\ out = <<>>

\* convert.py has not been started
BuildIdle ==
    /\ papersExist = FALSE
    /\ staleOutput = FALSE
    /\ corpus = <<>>
    /\ tex_related = <<>>
    /\ texts = <<>>
    /\ pandoc = <<>>
    /\ docsFiles = EmptyDict
    /\ navFile = Absent
    /\ homeFile = Absent
    /\ pc = "idle"
    /\ idx = 0
    /\ essays = <<>>
    /\ slug_to_info = EmptyDict
    /\ essay_tree = EmptyDict
    /\ converted = 0
    /\ failed = 0

\* ---- Spec: a build run of convert.main over a corpus drawn from Pool

Init == BuildInit(Corpora) /\ SiteIdle /\ FnIdle

Next ==
    \/ CleanOutput
    \/ Pass1Step
    \/ Pass1Done
    \/ Pass2Step
    \/ Finish

Spec == Init /\ [][Next]_vars

\* ---- SpecScenario: a build run over the corpus of the end-to-end scenario,
\* X/a.tex, X/Y/b.tex and Z/c.tex, in the order sorted() gives them

ScenarioCorpus == <<
    << <<"X">>, <<"Y">>, <<"b",".","t","e","x">> >>,
    << <<"X">>, <<"a",".","t","e","x">> >>,
    << <<"Z">>, <<"c",".","t","e","x">> >> >>

InitScenario == BuildInit({ScenarioCorpus}) /\ SiteIdle /\ FnIdle

SpecScenario == InitScenario /\ [][Next]_vars

\* ---- SpecHome: the last step of a build run, from the state pass 2 leaves
\* for a corpus X/d1.tex, X/d2.tex, ... whose documents all converted

DigitSeq == <<"0","1","2","3","4","5","6","7","8","9">>
DigitChar(n) == DigitSeq[n + 1]
HomeDoc(i) == << <<"X">>, <<"d", DigitChar(i), ".", "t", "e", "x">> >>

RECURSIVE TreeOf(_)
TreeOf(es) ==
    IF es = <<>> THEN EmptyDict
    ELSE LET info == es[Len(es)] IN
         TreeAppend(TreeOf(SubSeq(es, 1, Len(es) - 1)), info.top_category,
                    info.sub_category, <<info.title, info.nav_path>>)
RECURSIVE SlugsOf(_)
SlugsOf(es) ==
    IF es = <<>> THEN EmptyDict
    ELSE LET info == es[Len(es)] IN
         Put(SlugsOf(SubSeq(es, 1, Len(es) - 1)), info.file_slug,
             [title |-> info.title, path |-> info.nav_path])

\* what the two passes leave for the first n documents, but for the dates
HomeInfo == [i \in 1..MaxEssays |-> MakeInfo(HomeDoc(i), Alpha, 0, <<>>)]
HomePaths == [i \in 1..MaxEssays |-> OutPath(HomeInfo[i])]
HomeTrees == [n \in 0..MaxEssays |-> TreeOf(SubSeq(HomeInfo, 1, n))]
HomeSlugs == [n \in 0..MaxEssays |-> SlugsOf(SubSeq(HomeInfo, 1, n))]

InitHome ==
    /\ SiteIdle
    /\ FnIdle
    /\ papersExist = TRUE
    /\ staleOutput = FALSE
    /\ \E n \in 0..MaxEssays : \E dates \in [1..n -> 0..MaxHomeDate] :
         /\ corpus = [i \in 1..n |-> HomeDoc(i)]
         /\ tex_related = [i \in 1..n |-> <<>>]
         /\ texts = [i \in 1..n |-> Alpha]
         /\ pandoc = [i \in 1..n |-> TRUE]
         /\ essays = [i \in 1..n |-> [HomeInfo[i] EXCEPT !.published = dates[i]]]
         /\ docsFiles = [path \in { HomePaths[i] : i \in 1..n } |->
                            LET i == CHOOSE k \in 1..n : HomePaths[k] = path
                            IN  [src |-> HomeDoc(i), title |-> Alpha,
                                 published |-> dates[i], see_also |-> <<>>]]
         /\ slug_to_info = HomeSlugs[n]
         /\ essay_tree = HomeTrees[n]
    /\ navFile = Absent
    /\ homeFile = Absent
    /\ pc = "pass2"
    /\ idx = Len(essays) + 1
    /\ converted = Len(essays)
    /\ failed = 0

NextHome == Finish

SpecHome == InitHome /\ [][NextHome]_vars

\* ---- the sites the enricher specifications draw from

SitePool == <<
    <<Essays, <<"a">>, IndexHtml>>,
    <<Essays, <<"b",".","h","t","m","l">> >>,
    <<IndexHtml>> >>
PageTitle == <<"E","s","s","a","y">>

MkPage(rel, c) ==
    [rel |-> rel, headClose |-> c.headClose, pre |-> c.pre, head |-> <<>>,
     title |-> c.title, pub |-> c.pub, upd |-> c.upd]
\* the sites of at most MaxPages pages of SitePool, with contents from Contents
SitesOver(Contents) ==
    UNION { { [k \in 1..Cardinality(I) |-> MkPage(SitePool[Nth(I, k)], c[k])] :
                c \in [1..Cardinality(I) -> Contents] } :
            I \in {J \in SUBSET (1..Len(SitePool)) : Cardinality(J) <= MaxPages} }

\* ---- SpecInject: inject_seo.main, started MaxRuns times on one site

\* the sitemap MkDocs writes for the pages of SitePool
PoolSitemap ==
    << [loc |-> SITE_URL \o <<"/","e","s","s","a","y","s","/","a","/">>, lastmod |-> 0],
       [loc |-> SITE_URL \o <<"/","e","s","s","a","y","s","/","b",".","h","t","m","l">>,
        lastmod |-> 0],
       [loc |-> SITE_URL \o <<"/">>, lastmod |-> 0] >>

InjectContents ==
    [headClose : BOOLEAN, pre : {{}, {MJsonLd}, {MCanonical}}, title : {PageTitle},
     pub : {0, 1}, upd : {0, 1}]

InitInject ==
    /\ BuildIdle
    /\ FnIdle
    /\ pages \in SitesOver(InjectContents)
    /\ feedFile = Absent
    /\ sitemap = File(PoolSitemap)
    /\ epc = "inject"
    /\ eidx = 1
    /\ run = 1

NextInject ==
    \/ InjectPage
    \/ InjectDone
    \/ GenerateFeed
    \/ InjectSitemap
    \/ Rerun

SpecInject == InitInject /\ [][NextInject]_vars

\* ---- SpecSitemap: inject_sitemap_lastmod on a site and a sitemap

SitemapContents ==
    [headClose : {TRUE}, pre : {{}}, title : {PageTitle},
     pub : 0..MaxPageDate, upd : 0..MaxPageDate]

ForeignUrl == SITE_URL \o Slash \o <<"t","a","g","s">> \o Slash
\* the url elements a modelled sitemap may hold, in document order
SitemapLocs == <<SitemapUrl(SitePool[1]), SitemapUrl(SitePool[3]), ForeignUrl, NoLoc>>
\* the sitemaps: any of the elements, each without or with a lastmod
Sitemaps ==
    UNION { { [k \in 1..Cardinality(I) |-> [loc |-> SitemapLocs[Nth(I, k)], lastmod |-> m[k]]] :
                m \in [1..Cardinality(I) -> {0, 1}] } :
            I \in SUBSET (1..Len(SitemapLocs)) }

InitSitemap ==
    /\ BuildIdle
    /\ FnIdle
    /\ pages \in SitesOver(SitemapContents)
    /\ feedFile = Absent
    /\ sitemap \in {Absent} \cup { File(m) : m \in Sitemaps }
    /\ epc = "sitemap"
    /\ eidx = Len(pages) + 1
    /\ run = 1

NextSitemap == InjectSitemap

SpecSitemap == InitSitemap /\ [][NextSitemap]_vars

\* ---- SpecFeed: generate_rss_feed on a site of numbered pages
\* NNN/essays/index.html and NNN/notes/index.html, given as runs of pages of
\* one kind

Num3(i) == <<DigitChar(i \div 100), DigitChar((i \div 10) % 10), DigitChar(i % 10)>>
Notes == <<"n","o","t","e","s">>
FeedKinds ==
    { [essay |-> FALSE, title |-> PageTitle, pub |-> 1],
      [essay |-> TRUE, title |-> <<>>, pub |-> 1],
      [essay |-> TRUE, title |-> PageTitle, pub |-> 0] }
    \cup { [essay |-> TRUE, title |-> PageTitle, pub |-> d] : d \in 1..MaxPageDate }
\* a site is up to MaxChunks runs of pages of one kind each: single pages
\* and at most one run of FeedCap pages
ChunkSizes == {1, FeedCap}
Chunks ==
    { c \in UNION { [1..n -> FeedKinds \X ChunkSizes] : n \in 0..MaxChunks } :
        Cardinality({ i \in DOMAIN c : c[i][2] # 1 }) <= 1 }
\* the kind of each page of the site
RECURSIVE Expand(_)
Expand(chunks) ==
    IF chunks = <<>> THEN <<>>
    ELSE [i \in 1..chunks[1][2] |-> chunks[1][1]] \o Expand(Tail(chunks))
FeedSite(chunks) ==
    LET kinds == Expand(chunks) IN
    [i \in DOMAIN kinds |->
        [rel |-> <<Num3(i), IF kinds[i].essay THEN Essays ELSE Notes, IndexHtml>>,
         headClose |-> TRUE, pre |-> {}, head |-> <<>>,
         title |-> kinds[i].title, pub |-> kinds[i].pub, upd |-> 0]]

InitFeed ==
    /\ BuildIdle
    /\ FnIdle
    /\ pages \in { FeedSite(c) : c \in Chunks }
    /\ feedFile = Absent
    /\ sitemap = Absent
    /\ epc = "feed"
    /\ eidx = Len(pages) + 1
    /\ run = 1

NextFeed == GenerateFeed

SpecFeed == InitFeed /\ [][NextFeed]_vars

\* ---- SpecLinks: a build run over documents that name related essays

\* what a document names: nothing, or the last document of the corpus, a
\* slug of no document, the second and the first document
RelatedLists == { <<>>, << <<"c">>, <<"z","z">>, <<"a">>, <<"b">> >> }

InitLinks ==
    /\ SiteIdle
    /\ FnIdle
    /\ papersExist = TRUE
    /\ staleOutput = FALSE
    /\ corpus = ScenarioCorpus
    /\ tex_related \in [DOMAIN corpus -> RelatedLists]
    /\ texts = <<>>
    /\ pandoc = <<>>
    /\ docsFiles = InitialDocs(staleOutput)
    /\ navFile = Absent
    /\ homeFile = Absent
    /\ pc = "clean"
    /\ idx = 0
    /\ essays = <<>>
    /\ slug_to_info = EmptyDict
    /\ essay_tree = EmptyDict
    /\ converted = 0
    /\ failed = 0

SpecLinks == InitLinks /\ [][Next]_vars

\* ---- SpecDescription: extract_first_paragraph on a converted document

MaxWords == 3
\* the lengths of the words of a body line
WordLens == {1, DescMin, DescCut - DescMin, DescCut, DescLimit + 1}
Word(n) == [i \in 1..n |-> "a"]
RECURSIVE JoinWords(_)
JoinWords(ws) ==
    IF ws = <<>> THEN <<>>
    ELSE IF Len(ws) = 1 THEN Word(ws[1])
    ELSE Word(ws[1]) \o <<Space>> \o JoinWords(Tail(ws))
BodyLines == { JoinWords(ws) : ws \in UNION { [1..n -> WordLens] : n \in 1..MaxWords } }
HeadingLine == <<"#", " ", "a">>
MathChunk == <<"$", "x", "$", " ">>
\* a document: a body line, after a heading or not, after inline math or not
Documents ==
    { <<b>> : b \in BodyLines }
    \cup { <<HeadingLine, <<>>, b>> : b \in BodyLines }
    \cup { << <<Space>> \o MathChunk \o b \o <<Space>> >> : b \in BodyLines }

InitDescription ==
    /\ BuildIdle
    /\ SiteIdle
    /\ arg \in { <<d>> : d \in Documents }
    /\ out = <<>>

\* line 192 of clean_md: description = extract_first_paragraph(md)
Describe ==
    /\ Len(out) < Len(arg)
    /\ out' = Append(out, extract_first_paragraph(arg[Len(out) + 1]))
    /\ UNCHANGED <<buildVars, siteVars, arg>>

NextDescription == Describe

SpecDescription == InitDescription /\ [][NextDescription]_vars

\* ---- SpecSlug: slug applied twice to one file name

MaxNameLen == 4
\* an upper-case and a lower-case letter, a digit, and separators
NameChars == {"A", "b", "1", "-", "_", " ", "."}
\* the file names: up to MaxNameLen characters, with or without the suffix
FileNames ==
    LET bases == UNION { [1..n -> NameChars] : n \in 0..MaxNameLen }
    IN  bases \cup { b \o DotTex : b \in bases }

InitSlug ==
    /\ BuildIdle
    /\ SiteIdle
    /\ arg \in { <<n, n>> : n \in FileNames }
    /\ out = <<>>

\* lines 365-368 and 416-418 of main: slug(...)
Slugify ==
    /\ Len(out) < Len(arg)
    /\ out' = Append(out, slug(arg[Len(out) + 1]))
    /\ UNCHANGED <<buildVars, siteVars, arg>>

NextSlug == Slugify

SpecSlug == InitSlug /\ [][NextSlug]_vars

\* ---- SpecReading: estimate_reading_time on two documents, the second with
\* at least as many words as the first

MaxWordCount == 520

InitReading ==
    /\ BuildIdle
    /\ SiteIdle
    /\ arg \in { <<w1, w2>> : w1 \in 0..MaxWordCount, w2 \in 0..MaxWordCount }
    /\ arg[1] <= arg[2]
    /\ out = <<>>

\* line 197 of clean_md: reading_time = estimate_reading_time(md)
EstimateReading ==
    /\ Len(out) < Len(arg)
    /\ out' = Append(out, estimate_reading_time(arg[Len(out) + 1]))
    /\ UNCHANGED <<buildVars, siteVars, arg>>

NextReading == EstimateReading

SpecReading == InitReading /\ [][NextReading]_vars

\* ------------------------------------------------------------- claims

\* the number of entries of a tree that carry a title
TitleCount(tree, title) ==
    Cardinality({ e \in TreeEntries(tree) : EntryAt(tree, e)[1] = title })
\* the file slug of the document an entry of the tree stands for
EntrySlug(path) ==
    essays[CHOOSE i \in DOMAIN essays : essays[i].nav_path = path].file_slug
\* the suffix derived from a slug: hyphens to spaces, title-cased, in parentheses
SlugSuffix(s) == <<" ", "(">> \o Title(ReplaceChar(s, "-", " ")) \o <<")">>

\* C1: the disambiguation step gives every entry whose title is carried by
\* two or more entries of the whole tree a display title that no other entry
\* of the tree has and that is the title followed by the suffix of its own
\* slug; every entry whose title occurs once keeps its title.
C1_DisambiguatedTitlesUnique ==
    [][(pc = "pass2" /\ pc' = "done") =>
        \A e \in TreeEntries(essay_tree) :
            LET old == EntryAt(essay_tree, e)
                new == EntryAt(essay_tree', e)
            IN  IF TitleCount(essay_tree, old[1]) >= 2
                THEN /\ new[1] = old[1] \o SlugSuffix(EntrySlug(old[2]))
                     /\ \A f \in TreeEntries(essay_tree') \ {e} :
                            EntryAt(essay_tree', f)[1] # new[1]
                ELSE new[1] = old[1]]_vars

\* C3: after a build run every surviving source document (titled, converted)
\* has a content file of its own: no two of them were written to one path.
C3_OneFilePerSurvivor ==
    pc = "done" =>
        /\ \A i \in DOMAIN essays :
              pandoc[i] => \E path \in DOMAIN docsFiles : docsFiles[path].src = essays[i].rel
        /\ Cardinality(DOMAIN docsFiles) = Cardinality({ i \in DOMAIN essays : pandoc[i] })

\* C4: at the end of a build run the failure count is the number of documents
\* skipped for a missing or placeholder title plus the number of converter
\* failures, and every other eligible document has been converted.
C4_FailuresCounted ==
    pc = "done" =>
        /\ failed = Cardinality({ i \in DOMAIN texts : ~ValidTitle(texts[i]) })
                    + Cardinality({ i \in DOMAIN pandoc : ~pandoc[i] })
        /\ converted = Cardinality({ i \in DOMAIN pandoc : pandoc[i] })
        /\ Len(pandoc) = Cardinality({ i \in DOMAIN texts : ValidTitle(texts[i]) })

\* C5: when the input corpus directory is absent the run produces no output:
\* the output of an earlier run stays as it was and neither a content file
\* nor the navigation fragment nor the homepage is written.
C5_NoOutputWithoutCorpus ==
    ~papersExist =>
        /\ docsFiles = InitialDocs(staleOutput)
        /\ navFile = Absent
        /\ homeFile = Absent

\* ---- C2 (SpecInject)

\* no tag is in a page twice: the injected tags differ from one another and
\* from what the rendered page already held
NoDuplicateTags ==
    \A p \in DOMAIN pages :
        LET head == pages[p].head IN
        /\ \A i, j \in DOMAIN head : i # j => head[i].marker # head[j].marker
        /\ \A i \in DOMAIN head : head[i].marker \notin pages[p].pre

\* C2: a second run of the enricher over a site it has processed leaves every
\* page as the first run left it, and no tag and no structured-data block is
\* in a page more than once after any number of runs.
C2_InjectionIdempotent ==
    /\ []NoDuplicateTags
    /\ [][run >= 2 => pages' = pages]_vars

\* a second run has ended on a site with an essay page that got its
\* structured data and a page outside the essays, without dates, that got tags
C2_Witness ==
    /\ run = 2
    /\ epc = "end"
    /\ \E i, j \in DOMAIN pages :
          /\ InEssays(pages[i].rel)
          /\ \E k \in DOMAIN pages[i].head : pages[i].head[k].marker = MJsonLd
          /\ ~InEssays(pages[j].rel)
          /\ pages[j].head # <<>>
          /\ pages[j].pub = 0

\* ---- C6 (SpecFeed)

\* the pages a feed entry is made for
FeedEligible ==
    { i \in DOMAIN pages :
        InEssays(pages[i].rel) /\ pages[i].title # <<>> /\ pages[i].pub # 0 }
Min(a, b) == IF a < b THEN a ELSE b

\* C6: the feed holds its items latest publish date first; it holds
\* min(n, 50) items for n essay pages with a title and a date, each item is
\* one of those pages, no page is in it twice, and no page left out is later
\* than a page in it.
C6_FeedSortedAndCapped ==
    feedFile.exists =>
        LET items == feedFile.content
            eligible == FeedEligible
            urlOf == [i \in eligible |-> FeedUrl(pages[i].rel)]
            pageOf == [k \in DOMAIN items |->
                          CHOOSE i \in eligible : urlOf[i] = items[k].link]
            listed == { pageOf[k] : k \in DOMAIN items }
        IN  /\ Len(items) = Min(Cardinality(eligible), 50)
            /\ \A k \in DOMAIN items :
                  /\ \E i \in eligible : urlOf[i] = items[k].link
                  /\ items[k].pubDate = pages[pageOf[k]].pub
            /\ \A k, l \in DOMAIN items :
                  k < l => items[k].pubDate >= items[l].pubDate /\ items[k].link # items[l].link
            /\ \A i \in eligible \ listed :
                  \A k \in DOMAIN items : items[k].pubDate >= pages[i].pub

\* a feed of 50 items was written for a site with more than 50 eligible pages
\* of different dates and with pages that are no essay, untitled or undated
C6_Witness ==
    /\ feedFile.exists
    /\ Cardinality(FeedEligible) > 50
    /\ Len(feedFile.content) = 50
    /\ \E i, j \in FeedEligible : pages[i].pub # pages[j].pub
    /\ \E i \in DOMAIN pages : i \notin FeedEligible

\* ---- C7, C8 (SpecSitemap)

\* the URLs of the pages that yield a date
DatedUrls ==
    { SitemapUrl(pages[i].rel) : i \in { k \in DOMAIN pages :
                                          pages[k].pub # 0 \/ pages[k].upd # 0 } }

\* C7: inject_sitemap_lastmod changes the lastmod of a url element only when
\* its loc is the URL of a page that yields a date; every other element keeps
\* its lastmod (none stays none), no element is added, dropped or moved, and
\* a sitemap that does not exist is not written.
C7_SitemapFrame ==
    [][(epc = "sitemap" /\ epc' = "end") =>
        IF ~sitemap.exists THEN ~sitemap'.exists
        ELSE /\ sitemap'.exists
             /\ DOMAIN sitemap'.content = DOMAIN sitemap.content
             /\ \A k \in DOMAIN sitemap.content :
                   /\ sitemap'.content[k].loc = sitemap.content[k].loc
                   /\ sitemap.content[k].loc \notin DatedUrls =>
                         sitemap'.content[k].lastmod = sitemap.content[k].lastmod]_vars

\* the update has run on a sitemap that holds a dated page's URL, which got
\* its date, next to a URL of no page and an element without loc, which both
\* kept the lastmod they had
C7_Witness ==
    /\ epc = "end"
    /\ sitemap.exists
    /\ \E a, b, c \in DOMAIN sitemap.content :
          /\ sitemap.content[a].loc \in DatedUrls
          /\ sitemap.content[a].lastmod = MaxPageDate
          /\ sitemap.content[b].loc = ForeignUrl
          /\ sitemap.content[b].lastmod = 1
          /\ sitemap.content[c].loc = NoLoc
          /\ sitemap.content[c].lastmod = 1

Max(a, b) == IF a > b THEN a ELSE b

\* C8: after the update every url element whose loc is the URL of a page that
\* yields a date holds as lastmod the later of that page's updated and
\* published dates.
C8_LastmodIsLaterDate ==
    (epc = "end" /\ sitemap.exists) =>
        \A k \in DOMAIN sitemap.content :
            \A i \in DOMAIN pages :
                (/\ SitemapUrl(pages[i].rel) = sitemap.content[k].loc
                 /\ (pages[i].pub # 0 \/ pages[i].upd # 0)) =>
                    sitemap.content[k].lastmod =
                        Max(extract_meta(pages[i]).updated, extract_meta(pages[i]).date)

\* ---- C9 (SpecHome)

\* C9: the recent section lists the min(5, d) essays with the latest publish
\* dates among the d dated essays, latest first, essays of one date in the
\* order of the collection; an essay without a publish date is never listed.
C9_RecentList ==
    (pc = "done" /\ homeFile.exists) =>
        LET recent == homeFile.content.recent
            dated == { i \in DOMAIN essays : essays[i].published # 0 }
            essayOf(k) == CHOOSE i \in DOMAIN essays :
                             essays[i].nav_path = recent[k].nav_path
            Before(i, j) ==
                \/ essays[i].published > essays[j].published
                \/ essays[i].published = essays[j].published /\ i < j
        IN  /\ Len(recent) = Min(5, Cardinality(dated))
            /\ \A k \in DOMAIN recent :
                  /\ \E i \in dated : essays[i].nav_path = recent[k].nav_path
                  /\ recent[k].published = essays[essayOf(k)].published
            /\ \A k, l \in DOMAIN recent : k < l => Before(essayOf(k), essayOf(l))
            /\ \A i \in dated :
                  (\A k \in DOMAIN recent : essayOf(k) # i) =>
                      \A k \in DOMAIN recent : Before(essayOf(k), i)

\* the homepage was generated from more than five dated essays, two of them
\* of one date, and an undated one
C9_Witness ==
    /\ pc = "done"
    /\ homeFile.exists
    /\ Cardinality({ i \in DOMAIN essays : essays[i].published # 0 }) > 5
    /\ \E i \in DOMAIN essays : essays[i].published = 0
    /\ Len(homeFile.content.recent) = 5
    /\ homeFile.content.recent[5].published = homeFile.content.recent[4].published

\* ---- C10 (SpecScenario)

\* the run of the scenario has ended: b (X/Y) and a (X) are titled Alpha, c (Z)
\* Beta; a was published first, then b, then c; every conversion succeeded
ScenarioDone ==
    /\ pc = "done"
    /\ corpus = ScenarioCorpus
    /\ texts = <<Alpha, Alpha, Beta>>
    /\ pandoc = <<TRUE, TRUE, TRUE>>
    /\ [i \in DOMAIN essays |-> essays[i].published] = <<2, 1, 3>>

PathA == <<"e","s","s","a","y","s","/","x","/","a",".","m","d">>
PathB == <<"e","s","s","a","y","s","/","x","/","y","/","b",".","m","d">>
PathC == <<"e","s","s","a","y","s","/","z","/","c",".","m","d">>
ScenarioTree ==
    Put(Put(EmptyDict,
            <<"X">>,
            Put(Put(EmptyDict,
                    NoSub, << << <<"A","l","p","h","a"," ","(","A",")">>, PathA >> >>),
                <<"Y">>, << << <<"A","l","p","h","a"," ","(","B",")">>, PathB >> >>)),
        <<"Z">>,
        Put(EmptyDict, NoSub, << << <<"B","e","t","a">>, PathC >> >>))

\* C10: the scenario yields the tree X: one direct entry and one entry under
\* Y, Z: one direct entry; both Alpha titles carry the suffix of their own
\* slug and Beta is unchanged; the recent list is c, b, a.
C10_Scenario ==
    ScenarioDone =>
        /\ essay_tree = ScenarioTree
        /\ [k \in DOMAIN homeFile.content.recent |-> homeFile.content.recent[k].nav_path]
              = <<PathC, PathB, PathA>>

\* ---- C11 (SpecDescription)

\* the line a description is made of: the first line of the document that is
\* not skipped and is long enough once cleaned
RECURSIVE QualifyingLine(_)
QualifyingLine(lines) ==
    IF lines = <<>> THEN <<>>
    ELSE LET line == Strip(Head(lines), Space) IN
         IF ~SkippedLine(line) /\ Len(CleanLine(line)) > 30 THEN CleanLine(line)
         ELSE QualifyingLine(Tail(lines))

\* C11: the description is at most 155 characters long, and when the cleaned
\* line is longer than 155 characters the description is a prefix of the line
\* followed by the ellipsis, and the prefix ends where a word of the line
\* ends: it is never cut between two characters of one word.
C11_DescriptionCutAtWordBoundary ==
    \A k \in DOMAIN out :
        LET desc == out[k]
            line == QualifyingLine(arg[k])
            kept == Len(desc) - 3
        IN  /\ Len(desc) <= 155
            /\ Len(line) > 155 =>
                  /\ kept >= 0
                  /\ SubSeq(desc, kept + 1, Len(desc)) = Ellipsis
                  /\ SubSeq(desc, 1, kept) = SubSeq(line, 1, kept)
                  /\ ~(kept >= 1 /\ line[kept] # Space /\ line[kept + 1] # Space)

\* ---- C12 (SpecSlug)

\* C12: a slug holds only lower-case letters, digits and hyphens, no two
\* hyphens side by side and no hyphen at either end; the second application
\* of slug to a name gives what the first gave.
C12_SlugShape ==
    /\ \A k \in DOMAIN out :
          LET s == out[k] IN
          /\ \A i \in DOMAIN s : s[i] \in LowerSet \cup Digits \cup {"-"}
          /\ \A i \in 1..(Len(s) - 1) : ~(s[i] = "-" /\ s[i + 1] = "-")
          /\ s # <<>> => s[1] # "-" /\ s[Len(s)] # "-"
    /\ Len(out) = 2 => out[2] = out[1]

\* slug was applied twice to a name with the suffix, an upper-case letter, a
\* separator at its start and one between two letters
C12_Witness ==
    /\ Len(out) = 2
    /\ arg[1] = <<"-", "A", "_", "b">> \o DotTex
    /\ out[1] = <<"a", "-", "b">>

\* ---- C13 (SpecReading)

\* C13: every estimate is at least one minute, and the estimate for a
\* document is not greater than the estimate for a document with at least as
\* many words.
C13_ReadingTimeMonotone ==
    /\ \A k \in DOMAIN out : out[k] >= 1
    /\ Len(out) = 2 => out[1] <= out[2]

\* the estimates were made for 300 and for 500 words, both half-minute
\* points, and are two minutes each
C13_Witness ==
    /\ arg = <<300, 500>>
    /\ out = <<2, 2>>

\* ---- C14 (SpecInject)

\* the URL of a page as the claim words it
PageUrl(rel) ==
    IF rel = <<IndexHtml>> THEN SITE_URL \o <<"/">>
    ELSE IF rel[Len(rel)] = IndexHtml
         THEN SITE_URL \o <<"/">> \o JoinParts(SubSeq(rel, 1, Len(rel) - 1)) \o <<"/">>
         ELSE SITE_URL \o <<"/">> \o JoinParts(rel)

\* C14: the canonical link injected into a page is the site root URL for the
\* root index page, the URL of the directory for an index page below the
\* root, and the site URL followed by the relative path for any other page;
\* the URL the sitemap update records the page's date under is the same URL.
C14_PageUrls ==
    \A p \in DOMAIN pages :
        LET url == PageUrl(pages[p].rel) IN
        /\ \A k \in DOMAIN pages[p].head :
              pages[p].head[k].marker = MCanonical => pages[p].head[k].value = url
        /\ (epc = "end" /\ sitemap.exists /\ (pages[p].pub # 0 \/ pages[p].upd # 0)) =>
              \E k \in DOMAIN sitemap.content :
                  /\ sitemap.content[k].loc = url
                  /\ sitemap.content[k].lastmod # 0

\* a run has ended on a site with an index page below the root and the root
\* index page, both dated, each with its canonical link injected and its
\* lastmod set
C14_Witness ==
    /\ epc = "end"
    /\ Len(pages) = 2
    /\ pages[1].rel = SitePool[1]
    /\ pages[2].rel = <<IndexHtml>>
    /\ \A p \in DOMAIN pages :
          /\ pages[p].pub # 0
          /\ \E k \in DOMAIN pages[p].head : pages[p].head[k].marker = MCanonical
    /\ sitemap.content[1].lastmod # 0
    /\ sitemap.content[3].lastmod # 0

\* ---- C15, C16 (SpecLinks)

\* the slug of the i-th document of the corpus; no document of SpecLinks is
\* skipped, so texts[i] is the title read from it
SlugOfDoc(i) == slug(corpus[i][Len(corpus[i])])
\* every document has been read, and every titled document has its entry
MetadataComplete ==
    /\ Len(texts) = Len(corpus)
    /\ \A i \in DOMAIN corpus :
          ValidTitle(texts[i]) => SlugOfDoc(i) \in DOMAIN slug_to_info
\* the related slugs of a document that name a titled document
NamedBy(i) ==
    SelectSeq(tex_related[i],
              LAMBDA rs : \E j \in DOMAIN texts : ValidTitle(texts[j]) /\ SlugOfDoc(j) = rs)
\* every file written holds one link for each related slug of its document
\* that names a titled document, in the order the document names them
LinksResolved ==
    \A path \in DOMAIN docsFiles :
        LET file == docsFiles[path]
            i == CHOOSE k \in DOMAIN corpus : corpus[k] = file.src
            named == NamedBy(i)
        IN  /\ Len(file.see_also) = Len(named)
            /\ \A k \in DOMAIN named :
                  \E j \in DOMAIN essays :
                      /\ essays[j].file_slug = named[k]
                      /\ file.see_also[k].path = essays[j].nav_path

\* C15: a document is rendered, the duplicate titles are disambiguated and
\* the homepage is generated only when every document has been read and the
\* table holds the slug of every titled document; so every related slug that
\* names a titled document, read earlier or later, is a link of the file.
C15_MetadataBarrier ==
    /\ [](pc \in {"pass2", "done"} => MetadataComplete /\ LinksResolved)
    /\ [][(docsFiles' # docsFiles /\ pc # "clean") \/ essay_tree' # essay_tree
          \/ homeFile' # homeFile \/ navFile' # navFile
             => MetadataComplete /\ essays' = essays /\ slug_to_info' = slug_to_info]_vars

\* the run has ended with all three documents titled and converted; the
\* first and the last name related essays, and the file of each holds the
\* link to the other
C15_Witness ==
    /\ pc = "done"
    /\ converted = 3
    /\ tex_related[1] # <<>>
    /\ tex_related[3] # <<>>
    /\ \E p1, p3 \in DOMAIN docsFiles :
          /\ docsFiles[p1].src = corpus[1]
          /\ docsFiles[p3].src = corpus[3]
          /\ \E k \in DOMAIN docsFiles[p1].see_also :
                docsFiles[p1].see_also[k].path = essays[3].nav_path
          /\ \E k \in DOMAIN docsFiles[p3].see_also :
                docsFiles[p3].see_also[k].path = essays[1].nav_path

\* the file a link to a nav path points to
LinkedFile(nav_path) == <<"d","o","c","s","/">> \o nav_path
\* the nav paths the output of the run links to: the entries of the tree (and
\* so of the navigation), the recent list, and the "See also" links
LinkTargets ==
    { EntryAt(essay_tree, e)[2] : e \in TreeEntries(essay_tree) }
    \cup { homeFile.content.recent[k].nav_path : k \in DOMAIN homeFile.content.recent }
    \cup UNION { { docsFiles[p].see_also[k].path : k \in DOMAIN docsFiles[p].see_also } :
                 p \in DOMAIN docsFiles }

\* C16: after a run every document the output links to has its content file:
\* a document whose conversion failed is in no bucket of the tree, in no
\* entry of the recent list and the target of no "See also" link.
C16_LinksHaveFiles ==
    pc = "done" =>
        /\ \A target \in LinkTargets : LinkedFile(target) \in DOMAIN docsFiles
        /\ \A i \in DOMAIN essays : ~pandoc[i] => essays[i].nav_path \notin LinkTargets

====
